---- MODULE Spec2Model ----
(***************************************************************************)
(* A model of sol-acc (src/src/main.rs): the `accs` subcommand, from the   *)
(* parsed command line to the emitted report.                              *)
(*                                                                         *)
(* Text is a sequence of one-character strings, bytes are naturals below   *)
(* 256.  Option<T> is None or Some(v); Result<T> is Err or Ok(v).          *)
(***************************************************************************)
EXTENDS Integers, Sequences, FiniteSets, TLC

(* ------------------------------ bounds -------------------------------- *)

\* Most --filter occurrences on a command line.
MaxFilters == 2

\* Most accounts in an RPC response.
MaxAccounts == 2

(* --------------------------- Option / Result -------------------------- *)

None == [is_some |-> FALSE]

Some(v) == [is_some |-> TRUE, val |-> v]

Err == [is_ok |-> FALSE]

Ok(v) == [is_ok |-> TRUE, val |-> v]

(* ------------------------------- text --------------------------------- *)

Rep(c, n) == [i \in 1..n |-> c]

RECURSIVE Reverse(_)
Reverse(s) == IF s = <<>> THEN <<>> ELSE Reverse(Tail(s)) \o <<Head(s)>>

\* The 1-based position of c in the tuple alphabet, 0 when it is not there.
IndexOf(alphabet, c) ==
    IF \E i \in 1..Len(alphabet) : alphabet[i] = c
    THEN CHOOSE i \in 1..Len(alphabet) : alphabet[i] = c
    ELSE 0

\* str::split(':'): the pieces between the separators; "" splits to [""].
RECURSIVE Split(_)
Split(s) ==
    IF \A i \in 1..Len(s) : s[i] # ":"
    THEN <<s>>
    ELSE LET k == CHOOSE i \in 1..Len(s) :
                      s[i] = ":" /\ \A j \in 1..(i - 1) : s[j] # ":"
         IN <<SubSeq(s, 1, k - 1)>> \o Split(SubSeq(s, k + 1, Len(s)))

Digits == <<"0", "1", "2", "3", "4", "5", "6", "7", "8", "9">>

RECURSIVE DigitsValue(_)
DigitsValue(s) ==
    IF s = <<>> THEN 0
    ELSE DigitsValue(SubSeq(s, 1, Len(s) - 1)) * 10
         + (IndexOf(Digits, s[Len(s)]) - 1)

\* <usize as FromStr>::from_str: an optional '+', then one or more decimal
\* digits.  (Texts here are short, so the overflow error cannot arise.)
ParseUsize(s) ==
    LET d == IF s # <<>> /\ Head(s) = "+" THEN Tail(s) ELSE s
    IN IF d # <<>> /\ \A i \in 1..Len(d) : IndexOf(Digits, d[i]) # 0
       THEN Ok(DigitsValue(d))
       ELSE Err

(* -------------------------------- hex --------------------------------- *)

HexLower == <<"0", "1", "2", "3", "4", "5", "6", "7",
              "8", "9", "a", "b", "c", "d", "e", "f">>

HexUpper == <<"0", "1", "2", "3", "4", "5", "6", "7",
              "8", "9", "A", "B", "C", "D", "E", "F">>

\* The value of a hex digit of either case, -1 for any other character.
HexVal(c) ==
    IF IndexOf(HexLower, c) # 0 THEN IndexOf(HexLower, c) - 1
    ELSE IF IndexOf(HexUpper, c) # 0 THEN IndexOf(HexUpper, c) - 1
    ELSE -1

RECURSIVE HexPairs(_)
HexPairs(s) ==
    IF s = <<>> THEN <<>>
    ELSE <<HexVal(s[1]) * 16 + HexVal(s[2])>> \o HexPairs(SubSeq(s, 3, Len(s)))

\* hex::decode: odd length and non-hex characters are errors; the empty
\* text decodes to the empty byte vector.
HexDecode(s) ==
    IF Len(s) % 2 # 0 THEN Err
    ELSE IF \E i \in 1..Len(s) : HexVal(s[i]) = -1 THEN Err
    ELSE Ok(HexPairs(s))

\* hex::encode: two lowercase digits per byte.
RECURSIVE HexEncode(_)
HexEncode(bytes) ==
    IF bytes = <<>> THEN <<>>
    ELSE <<HexLower[(Head(bytes) \div 16) + 1], HexLower[(Head(bytes) % 16) + 1]>>
         \o HexEncode(Tail(bytes))

(* ------------------------------ base64 -------------------------------- *)

Base64Alphabet ==
    <<"A", "B", "C", "D", "E", "F", "G", "H", "I", "J", "K", "L", "M",
      "N", "O", "P", "Q", "R", "S", "T", "U", "V", "W", "X", "Y", "Z",
      "a", "b", "c", "d", "e", "f", "g", "h", "i", "j", "k", "l", "m",
      "n", "o", "p", "q", "r", "s", "t", "u", "v", "w", "x", "y", "z",
      "0", "1", "2", "3", "4", "5", "6", "7", "8", "9", "+", "/">>

B64(n) == Base64Alphabet[n + 1]

\* Base64::encode_string: the standard alphabet, padded with '='.
RECURSIVE Base64Encode(_)
Base64Encode(bytes) ==
    IF bytes = <<>> THEN <<>>
    ELSE IF Len(bytes) = 1 THEN
        <<B64(bytes[1] \div 4), B64((bytes[1] % 4) * 16), "=", "=">>
    ELSE IF Len(bytes) = 2 THEN
        <<B64(bytes[1] \div 4),
          B64((bytes[1] % 4) * 16 + bytes[2] \div 16),
          B64((bytes[2] % 16) * 4), "=">>
    ELSE
        <<B64(bytes[1] \div 4),
          B64((bytes[1] % 4) * 16 + bytes[2] \div 16),
          B64((bytes[2] % 16) * 4 + bytes[3] \div 64),
          B64(bytes[3] % 64)>>
        \o Base64Encode(SubSeq(bytes, 4, Len(bytes)))

(* ------------------------------ base58 -------------------------------- *)

Base58Alphabet ==
    <<"1", "2", "3", "4", "5", "6", "7", "8", "9",
      "A", "B", "C", "D", "E", "F", "G", "H", "J", "K", "L", "M", "N", "P",
      "Q", "R", "S", "T", "U", "V", "W", "X", "Y", "Z",
      "a", "b", "c", "d", "e", "f", "g", "h", "i", "j", "k", "m", "n", "o",
      "p", "q", "r", "s", "t", "u", "v", "w", "x", "y", "z">>

\* One step of the decoder: num * 58 + carry, num a little-endian byte
\* string without trailing zero bytes.
RECURSIVE MulAdd58(_, _)
MulAdd58(num, carry) ==
    IF num = <<>>
    THEN IF carry = 0 THEN <<>>
         ELSE <<carry % 256>> \o MulAdd58(<<>>, carry \div 256)
    ELSE LET v == Head(num) * 58 + carry
         IN <<v % 256>> \o MulAdd58(Tail(num), v \div 256)

RECURSIVE Base58Number(_)
Base58Number(s) ==
    IF s = <<>> THEN <<>>
    ELSE MulAdd58(Base58Number(SubSeq(s, 1, Len(s) - 1)),
                  IndexOf(Base58Alphabet, s[Len(s)]) - 1)

RECURSIVE LeadingOnes(_)
LeadingOnes(s) ==
    IF s # <<>> /\ Head(s) = "1" THEN 1 + LeadingOnes(Tail(s)) ELSE 0

\* bs58::decode: a character outside the alphabet is an error; the bytes
\* are the big-endian number, after one zero byte per leading '1'.
Base58Decode(s) ==
    IF \E i \in 1..Len(s) : IndexOf(Base58Alphabet, s[i]) = 0 THEN Err
    ELSE Ok(Rep(0, LeadingOnes(s)) \o Reverse(Base58Number(s)))

PUBKEY_BYTES == 32

MAX_BASE58_LEN == 44

\* Pubkey::from_str followed by to_bytes: the 32 bytes of the address.
PubkeyFromStr(s) ==
    IF Len(s) > MAX_BASE58_LEN THEN Err
    ELSE LET d == Base58Decode(s)
         IN IF d.is_ok /\ Len(d.val) = PUBKEY_BYTES THEN d ELSE Err

(* ------------------------- the filter compiler ------------------------ *)

Memcmp(offset, bytes) == [kind |-> "Memcmp", offset |-> offset, bytes |-> bytes]

DataSize(n) == [kind |-> "DataSize", size |-> n]

StartsWith0x(s) == Len(s) >= 2 /\ s[1] = "0" /\ s[2] = "x"

\* parse_filter: "offset:data" to a memcmp filter, or an error.
parse_filter(filter) ==
    LET parts == Split(filter)
    IN IF Len(parts) # 2 THEN Err
       ELSE LET offset == ParseUsize(parts[1])
                data_str == parts[2]
                bytes == IF StartsWith0x(data_str)
                         THEN HexDecode(SubSeq(data_str, 3, Len(data_str)))
                         ELSE PubkeyFromStr(data_str)
            IN IF ~offset.is_ok THEN Err
               ELSE IF ~bytes.is_ok THEN Err
               ELSE Ok(Memcmp(offset.val, bytes.val))

\* A lenient collection: the filters that do not compile are left out.
RECURSIVE CollectFiltersLenient(_)
CollectFiltersLenient(filter) ==
    IF filter = <<>> THEN Ok(<<>>)
    ELSE LET head == parse_filter(Head(filter))
             rest == CollectFiltersLenient(Tail(filter))
         IN IF head.is_ok THEN Ok(<<head.val>> \o rest.val) ELSE rest

\* filter.iter().map(parse_filter).collect::<Result<Vec<_>>>(): the
\* compiled filters in order, or the first error.
RECURSIVE CollectFilters(_)
CollectFilters(filter) ==
    IF filter = <<>> THEN Ok(<<>>)
    ELSE LET head == parse_filter(Head(filter))
             rest == CollectFilters(Tail(filter))
         IN IF ~head.is_ok THEN Err
            ELSE IF ~rest.is_ok THEN Err
            ELSE Ok(<<head.val>> \o rest.val)

\* The size filter put in front of the compiled filters.
PushSizeFront(compiled, size) ==
    IF size.is_some THEN <<DataSize(size.val)>> \o compiled ELSE compiled

\* rpc_filters.push(DataSize(size_val)) when --size is given.
PushSize(compiled, size) ==
    IF size.is_some THEN Append(compiled, DataSize(size.val)) ELSE compiled

\* The data slice of --data: "offset:size", both usize.
parse_data_slice(data) ==
    IF ~data.is_some THEN Ok(None)
    ELSE LET parts == Split(data.val)
         IN IF Len(parts) # 2 THEN Err
            ELSE LET offset == ParseUsize(parts[1])
                     length == ParseUsize(parts[2])
                 IN IF ~offset.is_ok \/ ~length.is_ok THEN Err
                    ELSE Ok(Some([offset |-> offset.val, length |-> length.val]))

\* RpcProgramAccountsConfig: the filter list is left out when it is empty.
Config(data_slice, rpc_filters) ==
    [encoding |-> "base64+zstd",
     commitment |-> "processed",
     data_slice |-> data_slice,
     filters |-> IF rpc_filters = <<>> THEN None ELSE Some(rpc_filters)]

(* ------------------------------ decoders ------------------------------ *)

ParserAlt == <<"a", "l", "t">>

\* get_decoder: Some("alt") is the ALT decoder, any other name an error,
\* no name no decoder.
get_decoder(parser) ==
    IF ~parser.is_some THEN Ok(None)
    ELSE IF parser.val = ParserAlt THEN Ok(Some("AltDecoder"))
    ELSE Err

LOOKUP_TABLE_META_SIZE == 56

RECURSIVE Chunks(_, _)
Chunks(bytes, n) ==
    IF Len(bytes) < n THEN <<>>
    ELSE <<SubSeq(bytes, 1, n)>> \o Chunks(SubSeq(bytes, n + 1, Len(bytes)), n)

\* AddressLookupTable::deserialize: the u32 tag must be 1 (LookupTable),
\* the authority's option tag 0 or 1, the metadata 56 bytes, and the rest
\* whole 32-byte addresses.
AltDeserialize(data) ==
    IF /\ Len(data) >= LOOKUP_TABLE_META_SIZE
       /\ SubSeq(data, 1, 4) = <<1, 0, 0, 0>>
       /\ data[22] \in {0, 1}
       /\ (Len(data) - LOOKUP_TABLE_META_SIZE) % PUBKEY_BYTES = 0
    THEN Ok(Chunks(SubSeq(data, LOOKUP_TABLE_META_SIZE + 1, Len(data)),
                   PUBKEY_BYTES))
    ELSE Err

\* AltDecoder::decode.  An address stands for its base58 rendering.
AltDecoder_decode(data) ==
    LET alt == AltDeserialize(data)
    IN IF ~alt.is_ok THEN Err
       ELSE Ok([type |-> "address_lookup_table",
                addresses |-> alt.val,
                num_addresses |-> Len(alt.val)])

\* A raw view whose size counts the hex digits.
RawViewHexSize(data) ==
    [type |-> "raw",
     hex |-> HexEncode(data),
     base64 |-> Base64Encode(data),
     size |-> Len(HexEncode(data))]

\* The raw view of a payload.
RawView(data) ==
    [type |-> "raw",
     hex |-> HexEncode(data),
     base64 |-> Base64Encode(data),
     size |-> Len(data)]

(* ------------------------------- inputs ------------------------------- *)

SeqsUpTo(S, n) == UNION {[1..k -> S] : k \in 0..n}

\* The System Program's address, and a text that is no address.
ProgramArgs == {Rep("1", 32), <<"0", "x", "1", "2">>}

ParserArgs == {None, Some(ParserAlt), Some(<<"f", "o", "o">>)}

DataArgs == {None, Some(<<"0", ":", "8">>), Some(<<"8">>)}

\* 10:0xdead, 0:0x, 0:Vote111111111111111111111111111111111111111 compile;
\* 10 (no separator), 1:0x00:0x01 (an extra one), x:0x00 (no integer),
\* 0:0xabc (odd hex), 0:0xzz (no hex), 0:0OIl (no base58), 0:111 (an
\* address of 3 bytes) do not.
FilterArgs ==
    {<<"1", "0", ":", "0", "x", "d", "e", "a", "d">>,
     <<"0", ":", "0", "x">>,
     <<"0", ":", "V", "o", "t", "e">> \o Rep("1", 39),
     <<"1", "0">>,
     <<"1", ":", "0", "x", "0", "0", ":", "0", "x", "0", "1">>,
     <<"x", ":", "0", "x", "0", "0">>,
     <<"0", ":", "0", "x", "a", "b", "c">>,
     <<"0", ":", "0", "x", "z", "z">>,
     <<"0", ":", "0", "O", "I", "l">>,
     <<"0", ":", "1", "1", "1">>}

SizeArgs == {None, Some(165)}

OutputArgs == {None, Some("out.json")}

\* A lookup table without addresses: tag 1, deactivation slot u64::MAX,
\* no authority.
AltEmpty == <<1, 0, 0, 0>> \o Rep(255, 8) \o Rep(0, 44)

\* What the codec makes of an account's payload: nothing, or the bytes.
Payloads == {None, Some(<<>>), Some(<<255>>), Some(<<0, 1, 2>>), Some(AltEmpty)}

Pubkeys == {"pkA", "pkB"}

Accounts ==
    {[pubkey |-> pk, lamports |-> 890880, owner |-> "owner", data |-> d] :
        pk \in Pubkeys, d \in Payloads}

(* -------------------------------- state ------------------------------- *)

VARIABLES
    program, parser, data, filter, size, output,  \* the command line
    server,          \* what the endpoint answers to a program-accounts call
    pc,              \* the statement of main to run next
    data_slice,      \* the parsed --data
    cfg,             \* the request configuration
    rpc_log,         \* the RPC calls issued so far
    accounts,        \* the response
    next_account,    \* the position of the for loop in accounts
    decoder, results, processed,
    stderr, stdout, file,
    sink_writes,     \* the writes of the report to stdout or the file
    exit_code

vars == <<program, parser, data, filter, size, output, server, pc, data_slice,
          cfg, rpc_log, accounts, next_account, decoder, results, processed,
          stderr, stdout, file, sink_writes, exit_code>>

cli == <<program, parser, data, filter, size, output, server>>

Untouched == [state |-> "untouched"]

Written(json) == [state |-> "written", json |-> json]

\* Command lines in full, against an endpoint that fails, or answers with
\* one account.
ArgsFocus ==
    /\ program \in ProgramArgs
    /\ parser \in ParserArgs
    /\ data \in DataArgs
    /\ filter \in SeqsUpTo(FilterArgs, MaxFilters)
    /\ size \in SizeArgs
    /\ output = None
    /\ server \in {Err, Ok(<<[pubkey |-> "pkA", lamports |-> 890880,
                              owner |-> "owner", data |-> Some(<<0, 1, 2>>)]>>)}

\* Command lines that reach the endpoint, against its answers in full.
PipelineFocus ==
    /\ program = Rep("1", 32)
    /\ parser \in ParserArgs
    /\ data \in {None, Some(<<"0", ":", "8">>)}
    /\ ~(parser.is_some /\ data.is_some)
    /\ filter = <<>>
    /\ size = None
    /\ output \in OutputArgs
    /\ server \in {Err} \cup {Ok(a) : a \in SeqsUpTo(Accounts, MaxAccounts)}

Init ==
    /\ ArgsFocus \/ PipelineFocus
    /\ pc = "cli"
    /\ data_slice = None
    /\ cfg = None
    /\ rpc_log = <<>>
    /\ accounts = <<>>
    /\ next_account = 0
    /\ decoder = None
    /\ results = <<>>
    /\ processed = 0
    /\ stderr = <<>>
    /\ stdout = Untouched
    /\ file = Untouched
    /\ sink_writes = 0
    /\ exit_code = None

(* ------------------------------- actions ------------------------------ *)

\* The process ends with `code`; an error ends it with a line on stderr.
Exit(code, lines) ==
    /\ pc' = "done"
    /\ exit_code' = Some(code)
    /\ stderr' = stderr \o lines

ErrorLine(what) == [msg |-> "error", what |-> what]

\* No conflict between the arguments.
NoConflict(p, d) == FALSE

\* #[arg(conflicts_with = ...)] on parser and data.
Conflict(p, d) == p.is_some /\ d.is_some

\* Cli::parse(): clap ends the process with code 2 on a conflict.
CliParse ==
    /\ pc = "cli"
    /\ IF Conflict(parser, data)
       THEN Exit(2, <<ErrorLine("conflict")>>)
       ELSE pc' = "program" /\ UNCHANGED <<exit_code, stderr>>
    /\ UNCHANGED <<cli, data_slice, cfg, rpc_log, accounts, next_account,
                   decoder, results, processed, stdout, file, sink_writes>>

\* RpcClient::new_with_timeout_and_commitment (no I/O) and
\* Pubkey::from_str(&program)?.
ParseProgram ==
    /\ pc = "program"
    /\ IF PubkeyFromStr(program).is_ok
       THEN pc' = "data_slice" /\ UNCHANGED <<exit_code, stderr>>
       ELSE Exit(1, <<ErrorLine("program")>>)
    /\ UNCHANGED <<cli, data_slice, cfg, rpc_log, accounts, next_account,
                   decoder, results, processed, stdout, file, sink_writes>>

\* let data_slice = ...
ParseDataSlice ==
    /\ pc = "data_slice"
    /\ LET r == parse_data_slice(data)
       IN IF r.is_ok
          THEN /\ data_slice' = r.val
               /\ pc' = "filters"
               /\ UNCHANGED <<exit_code, stderr>>
          ELSE /\ Exit(1, <<ErrorLine("data")>>)
               /\ UNCHANGED data_slice
    /\ UNCHANGED <<cli, cfg, rpc_log, accounts, next_account,
                   decoder, results, processed, stdout, file, sink_writes>>

\* let mut rpc_filters = ...?; the size filter; let cfg = ...
ParseFilters ==
    /\ pc = "filters"
    /\ LET r == CollectFilters(filter)
       IN IF r.is_ok
          THEN /\ cfg' = Some(Config(data_slice, PushSize(r.val, size)))
               /\ pc' = "rpc"
               /\ UNCHANGED <<exit_code, stderr>>
          ELSE /\ Exit(1, <<ErrorLine("filter")>>)
               /\ UNCHANGED cfg
    /\ UNCHANGED <<cli, data_slice, rpc_log, accounts, next_account,
                   decoder, results, processed, stdout, file, sink_writes>>

\* rpc.get_program_ui_accounts_with_config(&program_pubkey, cfg)? and the
\* "Fetched" line.
RpcCall ==
    /\ pc = "rpc"
    /\ rpc_log' = Append(rpc_log, [method |-> "getProgramAccounts",
                                   program |-> PubkeyFromStr(program).val,
                                   config |-> cfg.val])
    /\ IF server.is_ok
       THEN /\ accounts' = server.val
            /\ stderr' = Append(stderr, [msg |-> "Fetched", n |-> Len(server.val)])
            /\ pc' = "decoder"
            /\ UNCHANGED exit_code
       ELSE /\ Exit(1, <<ErrorLine("rpc")>>)
            /\ UNCHANGED accounts
    /\ UNCHANGED <<cli, data_slice, cfg, next_account,
                   decoder, results, processed, stdout, file, sink_writes>>

\* let decoder = get_decoder(parser.as_deref())?; results and processed.
ResolveDecoder ==
    /\ pc = "decoder"
    /\ LET r == get_decoder(parser)
       IN IF r.is_ok
          THEN /\ decoder' = r.val
               /\ results' = <<>>
               /\ processed' = 0
               /\ next_account' = 1
               /\ pc' = "loop"
               /\ UNCHANGED <<exit_code, stderr>>
          ELSE /\ Exit(1, <<ErrorLine("parser")>>)
               /\ UNCHANGED <<decoder, results, processed, next_account>>
    /\ UNCHANGED <<cli, data_slice, cfg, rpc_log, accounts,
                   stdout, file, sink_writes>>

\* The decoder object's decode; AltDecoder is the only one.
Decode(dec, bytes) == CASE dec = "AltDecoder" -> AltDecoder_decode(bytes)

Value(v) == [kind |-> "value", val |-> v]

Continue(lines) == [kind |-> "continue", lines |-> lines]

FailedLine(pubkey) == [msg |-> "Failed to decode", pubkey |-> pubkey]

\* A payload the codec cannot decode taken for an empty one.
DataValueOrDefault(dec, acc) ==
    LET bytes == IF acc.data.is_some THEN acc.data.val ELSE <<>>
    IN IF dec.is_some
       THEN LET decoded == Decode(dec.val, bytes)
            IN IF decoded.is_ok THEN Value(decoded.val)
               ELSE Continue(<<FailedLine(acc.pubkey)>>)
       ELSE Value(RawView(bytes))

\* let data_value = ...: the decoded view or the raw view of the payload,
\* or `continue` (with a line on stderr when it is the decoder that fails).
DataValue(dec, acc) ==
    IF dec.is_some
    THEN IF ~acc.data.is_some THEN Continue(<<>>)
         ELSE LET decoded == Decode(dec.val, acc.data.val)
              IN IF decoded.is_ok THEN Value(decoded.val)
                 ELSE Continue(<<FailedLine(acc.pubkey)>>)
    ELSE IF ~acc.data.is_some THEN Continue(<<>>)
         ELSE Value(RawView(acc.data.val))

Entry(acc, data_value) ==
    [pubkey |-> acc.pubkey,
     lamports |-> acc.lamports,
     owner |-> acc.owner,
     data |-> data_value]

\* The entry put in front of the results.
PushFront(res, proc, entry) ==
    [results |-> <<entry>> \o res, processed |-> proc + 1]

\* results.push(...); processed += 1.
Push(res, proc, entry) ==
    [results |-> Append(res, entry), processed |-> proc + 1]

\* A skipped account counted as processed.
SkipCounted(res, proc) == [results |-> res, processed |-> proc + 1]

\* continue: the account leaves no trace in results and processed.
Skip(res, proc) == [results |-> res, processed |-> proc]

\* A loop that ends after its first account.
LoopFinishedEarly(i, accs) == i > 1 \/ i > Len(accs)

\* for (pubkey, acc) in accounts: every account, in order.
LoopFinished(i, accs) == i > Len(accs)

\* One iteration of the for loop.
LoopStep ==
    /\ pc = "loop"
    /\ ~LoopFinished(next_account, accounts)
    /\ LET acc == accounts[next_account]
           data_value == DataValue(decoder, acc)
           after == IF data_value.kind = "value"
                    THEN Push(results, processed, Entry(acc, data_value.val))
                    ELSE Skip(results, processed)
       IN /\ results' = after.results
          /\ processed' = after.processed
          /\ stderr' = IF data_value.kind = "value" THEN stderr
                       ELSE stderr \o data_value.lines
    /\ next_account' = next_account + 1
    /\ UNCHANGED <<cli, pc, data_slice, cfg, rpc_log, accounts, decoder,
                   stdout, file, sink_writes, exit_code>>

\* let output_json = json!({...}).
Report(prog, proc, res) == [program |-> prog, count |-> proc, accounts |-> res]

ProcessedLine(n) == [msg |-> "Processed", n |-> n]

SavedLine(path) == [msg |-> "Saved to", path |-> path]

\* What a write leaves in its sink: all of the text, or on an I/O error
\* a part of it or none.
WriteOutcomes == {"written", "partial", "untouched"}

After(outcome, json) ==
    IF outcome = "written" THEN Written(json) ELSE [state |-> outcome]

\* The "Processed" line, then the report to the file (an I/O error is
\* returned by `?`) or to stdout (println! panics on an I/O error).
Emit ==
    /\ pc = "loop"
    /\ LoopFinished(next_account, accounts)
    /\ sink_writes' = sink_writes + 1
    /\ \E outcome \in WriteOutcomes :
         LET json == Report(program, processed, results)
         IN IF output.is_some
            THEN /\ file' = After(outcome, json)
                 /\ UNCHANGED stdout
                 /\ IF outcome = "written"
                    THEN Exit(0, <<ProcessedLine(processed), SavedLine(output.val)>>)
                    ELSE Exit(1, <<ProcessedLine(processed), ErrorLine("io")>>)
            ELSE /\ stdout' = After(outcome, json)
                 /\ UNCHANGED file
                 /\ IF outcome = "written"
                    THEN Exit(0, <<ProcessedLine(processed)>>)
                    ELSE Exit(101, <<ProcessedLine(processed), ErrorLine("stdout")>>)
    /\ UNCHANGED <<cli, data_slice, cfg, rpc_log, accounts, next_account,
                   decoder, results, processed>>

Next ==
    \/ CliParse
    \/ ParseProgram
    \/ ParseDataSlice
    \/ ParseFilters
    \/ RpcCall
    \/ ResolveDecoder
    \/ LoopStep
    \/ Emit

Spec == Init /\ [][Next]_vars

(* ----------------------------- properties ----------------------------- *)

Running == ~exit_code.is_some

Failed == exit_code.is_some /\ exit_code.val # 0

Succeeded == exit_code.is_some /\ exit_code.val = 0

HasError(what) == \E i \in 1..Len(stderr) : stderr[i] = ErrorLine(what)

SinksUntouched == stdout = Untouched /\ file = Untouched /\ sink_writes = 0

\* The sink the report goes to.
Sink == IF output.is_some THEN file ELSE stdout

\* C1: whenever --parser and --data are both supplied, whatever the other
\* arguments, no RPC call is issued and the only step the run takes is the
\* one that ends it with a non-zero exit code.
C1_ConflictRejected ==
    (parser.is_some /\ data.is_some) =>
        /\ rpc_log = <<>>
        /\ pc \in {"cli", "done"}
        /\ pc = "done" => Failed

C1_Witness ==
    /\ parser.is_some /\ data.is_some
    /\ filter # <<>> /\ size.is_some
    /\ pc = "done" /\ exit_code = Some(2) /\ rpc_log = <<>>

\* C2: --parser alt resolves to the alt decoder, no --parser to no decoder,
\* and with any other parser name the run fails without ever issuing the
\* program-accounts call.
C2_UnknownParserPreNetwork ==
    /\ pc = "loop" =>
           decoder = IF parser.is_some /\ parser.val = ParserAlt
                     THEN Some("AltDecoder") ELSE None
    /\ (parser.is_some /\ parser.val # ParserAlt) =>
           /\ rpc_log = <<>>
           /\ pc = "done" => Failed

\* An account the loop emits an entry for: the codec decodes its payload
\* and the decoder, when there is one, accepts the bytes.
Usable(acc) ==
    /\ acc.data.is_some
    /\ decoder.is_some => AltDeserialize(acc.data.val).is_ok

\* An account on which the decoder returns an error.
DecoderFails(acc) ==
    /\ acc.data.is_some
    /\ decoder.is_some
    /\ ~AltDeserialize(acc.data.val).is_ok

Key(x) == <<x.pubkey, x.lamports, x.owner>>

Keys(s) == [i \in 1..Len(s) |-> Key(s[i])]

IsFailedLine(l) == l.msg = "Failed to decode"

\* C3: once the loop has started, the accounts gone through so far have
\* left exactly the usable ones in the results and one "Failed to decode"
\* line per decoder error; no iteration ends the run; the loop goes through
\* the whole response, and the run then writes the report and ends with
\* exit code 0 (unless the write itself fails).
C3_PerAccountIsolation ==
    next_account >= 1 =>
        LET seen == SubSeq(accounts, 1, next_account - 1)
        IN /\ Keys(results) = Keys(SelectSeq(seen, Usable))
           /\ SelectSeq(stderr, IsFailedLine)
                  = [i \in 1..Len(SelectSeq(seen, DecoderFails)) |->
                        FailedLine(SelectSeq(seen, DecoderFails)[i].pubkey)]
           /\ pc = "loop" => Running
           /\ pc = "done" =>
                  /\ next_account = Len(accounts) + 1
                  /\ sink_writes = 1
                  /\ \/ HasError("io") \/ HasError("stdout")
                     \/ /\ Succeeded
                        /\ Sink.state = "written"
                        /\ Sink.json.accounts = results

C3_Witness ==
    /\ pc = "done" /\ Succeeded
    /\ decoder.is_some
    /\ Len(accounts) = 2
    /\ DecoderFails(accounts[1])
    /\ Usable(accounts[2])
    /\ Len(results) = 1
    /\ results[1].pubkey = accounts[2].pubkey
    /\ Sink.state = "written"

\* C4: in every report written, count is the length of accounts and the M
\* of the "Processed: M" line; all along, processed is the number of
\* results.
C4_CountIsLength ==
    /\ processed = Len(results)
    /\ \A sink \in {stdout, file} :
           sink.state = "written" =>
               /\ sink.json.count = Len(sink.json.accounts)
               /\ \E i \in 1..Len(stderr) :
                      stderr[i] = ProcessedLine(sink.json.count)
               /\ \A i \in 1..Len(stderr) :
                      stderr[i].msg = "Processed"
                          => stderr[i].n = Len(sink.json.accounts)

C4_Witness ==
    /\ Sink.state = "written"
    /\ Len(accounts) = 2
    /\ Sink.json.count = 1
    /\ Len(Sink.json.accounts) = 1

RequestFilters(request) ==
    IF request.config.filters.is_some THEN request.config.filters.val ELSE <<>>

\* C5: the filters of a request issued are the memcmp filters of the
\* --filter occurrences, one each and in their order, then the data-size
\* filter when --size is given, and nothing else.
C5_FilterOrder ==
    \A r \in 1..Len(rpc_log) :
        LET fs == RequestFilters(rpc_log[r])
        IN /\ Len(fs) = Len(filter) + (IF size.is_some THEN 1 ELSE 0)
           /\ \A k \in 1..Len(filter) :
                  /\ fs[k].kind = "Memcmp"
                  /\ Ok(fs[k]) = parse_filter(filter[k])
           /\ size.is_some => fs[Len(fs)] = DataSize(size.val)
           /\ rpc_log[r].config.filters.is_some => fs # <<>>

C5_Witness ==
    /\ Len(rpc_log) = 1
    /\ Len(filter) = 2
    /\ LET fs == RequestFilters(rpc_log[1])
       IN /\ Len(fs) = 3
          /\ fs[1] = Memcmp(10, <<222, 173>>)
          /\ fs[2].kind = "Memcmp" /\ fs[2].offset = 0
          /\ Len(fs[2].bytes) = 32 /\ fs[2].bytes[1] = 7
          /\ fs[3] = DataSize(165)

\* The entry is the one the loop makes of the account.
EntryOf(e, acc) ==
    /\ Key(e) = Key(acc)
    /\ acc.data.is_some
    /\ IF decoder.is_some
       THEN /\ e.data.type = "address_lookup_table"
            /\ e.data.num_addresses * PUBKEY_BYTES
                   = Len(acc.data.val) - LOOKUP_TABLE_META_SIZE
       ELSE /\ e.data.type = "raw"
            /\ HexDecode(e.data.hex) = Ok(acc.data.val)

\* C6: the entries of the results (and so of the report) are entries of
\* accounts of the response at strictly increasing positions: response
\* order, each account at most once.
C6_ResponseOrder ==
    \E f \in [1..Len(results) -> 1..Len(accounts)] :
        /\ \A i \in 1..Len(results) : EntryOf(results[i], accounts[f[i]])
        /\ \A i, j \in 1..Len(results) : i < j => f[i] < f[j]

C6_Witness ==
    /\ pc = "done" /\ Sink.state = "written"
    /\ Len(Sink.json.accounts) = 2
    /\ Sink.json.accounts[1].pubkey = "pkA"
    /\ Sink.json.accounts[2].pubkey = "pkB"
    /\ accounts[1].pubkey = "pkA"

\* The --filter values that do not compile: no separator, an extra one, no
\* integer offset, odd-length hex, no hex, no base58, a short address.
BadFilterArgs ==
    {<<"1", "0">>,
     <<"1", ":", "0", "x", "0", "0", ":", "0", "x", "0", "1">>,
     <<"x", ":", "0", "x", "0", "0">>,
     <<"0", ":", "0", "x", "a", "b", "c">>,
     <<"0", ":", "0", "x", "z", "z">>,
     <<"0", ":", "0", "O", "I", "l">>,
     <<"0", ":", "1", "1", "1">>}

\* C7: with a --filter value that does not compile at any position, no RPC
\* call is issued, no report is written, and the run ends, before its RPC
\* call, with a non-zero exit code.
C7_BadFilterFailsFast ==
    (\E k \in 1..Len(filter) : filter[k] \in BadFilterArgs) =>
        /\ rpc_log = <<>>
        /\ SinksUntouched
        /\ pc \in {"cli", "program", "data_slice", "filters", "done"}
        /\ pc = "done" => Failed

C7_Witness ==
    /\ Len(filter) = 2
    /\ filter[1] \notin BadFilterArgs
    /\ filter[2] \in BadFilterArgs
    /\ pc = "done" /\ HasError("filter") /\ exit_code = Some(1)

HardFailure ==
    \/ HasError("conflict") \/ HasError("program") \/ HasError("data")
    \/ HasError("filter") \/ HasError("rpc") \/ HasError("parser")

\* C8: the report is written at most once, to one sink, and only when the
\* one RPC call has returned and the loop has gone through every account of
\* the response; what is written in full is the whole report; a run that
\* ends in an argument error, an RPC error or an unknown parser leaves both
\* sinks untouched.
C8_AtomicReport ==
    /\ sink_writes <= 1
    /\ Len(rpc_log) <= 1
    /\ stdout = Untouched \/ file = Untouched
    /\ (sink_writes > 0 \/ stdout # Untouched \/ file # Untouched) =>
           /\ Len(rpc_log) = 1
           /\ server.is_ok /\ accounts = server.val
           /\ next_account = Len(accounts) + 1
           /\ pc = "done"
    /\ \A sink \in {stdout, file} :
           sink.state = "written" =>
               /\ sink.json = Report(program, processed, results)
               /\ Keys(sink.json.accounts) = Keys(SelectSeq(accounts, Usable))
    /\ HardFailure => SinksUntouched /\ Failed

C8_Witness ==
    /\ pc = "done" /\ file.state = "written" /\ sink_writes = 1
    /\ Len(accounts) = 2 /\ Len(file.json.accounts) = 1

C8_WitnessFailure ==
    /\ pc = "done" /\ HasError("parser") /\ Len(rpc_log) = 1 /\ SinksUntouched

B64Val(c) == IndexOf(Base64Alphabet, c) - 1

RECURSIVE Base64Quads(_)
Base64Quads(s) ==
    IF s = <<>> THEN <<>>
    ELSE LET a == B64Val(s[1])
             b == B64Val(s[2])
             c == B64Val(s[3])
             d == B64Val(s[4])
             rest == Base64Quads(SubSeq(s, 5, Len(s)))
         IN IF s[3] = "=" THEN <<a * 4 + b \div 16>>
            ELSE IF s[4] = "=" THEN <<a * 4 + b \div 16, (b % 16) * 16 + c \div 4>>
            ELSE <<a * 4 + b \div 16, (b % 16) * 16 + c \div 4, (c % 4) * 64 + d>>
                 \o rest

\* The bytes a padded standard base64 text stands for.
Base64Decode(s) ==
    IF Len(s) % 4 # 0 THEN Err
    ELSE IF \E i \in 1..Len(s) :
                /\ B64Val(s[i]) = -1
                /\ ~(s[i] = "=" /\ i >= Len(s) - 1 /\ s[Len(s)] = "=")
         THEN Err
    ELSE Ok(Base64Quads(s))

\* C9: without --parser every entry is a raw view whose size is the byte
\* length of the payload of an account of the response with the entry's
\* pubkey, half the length of hex, and the length of the bytes base64
\* stands for.
C9_RawView ==
    ~parser.is_some =>
        \A i \in 1..Len(results) :
            LET view == results[i].data
            IN /\ view.type = "raw"
               /\ 2 * view.size = Len(view.hex)
               /\ Base64Decode(view.base64).is_ok
               /\ view.size = Len(Base64Decode(view.base64).val)
               /\ \E k \in 1..Len(accounts) :
                      /\ accounts[k].pubkey = results[i].pubkey
                      /\ accounts[k].data.is_some
                      /\ view.size = Len(accounts[k].data.val)
                      /\ HexDecode(view.hex) = Ok(accounts[k].data.val)
                      /\ Base64Decode(view.base64) = Ok(accounts[k].data.val)

C9_Witness ==
    /\ ~parser.is_some /\ pc = "done" /\ Sink.state = "written"
    /\ Len(Sink.json.accounts) = 2
    /\ Sink.json.accounts[1].data
           = [type |-> "raw", hex |-> <<"0", "0", "0", "1", "0", "2">>,
              base64 |-> <<"A", "A", "E", "C">>, size |-> 3]
    /\ Sink.json.accounts[2].data
           = [type |-> "raw", hex |-> <<"f", "f">>,
              base64 |-> <<"/", "w", "=", "=">>, size |-> 1]

\* C10: every memcmp filter of a request issued has a pattern of at least
\* one byte, and the pattern of a 0x value is the bytes of its hex digits.
C10_PatternNonEmpty ==
    \A r \in 1..Len(rpc_log) :
        LET fs == RequestFilters(rpc_log[r])
        IN \A k \in 1..Len(filter) :
               /\ fs[k].kind = "Memcmp"
               /\ Len(fs[k].bytes) >= 1
               /\ StartsWith0x(Split(filter[k])[2]) =>
                      Ok(fs[k].bytes)
                          = HexDecode(SubSeq(Split(filter[k])[2], 3,
                                             Len(Split(filter[k])[2])))

====
